---- MODULE Spec2Model ----
(***************************************************************************)
(* The art gallery table: the selection tracker (useSelectionTracker.ts),  *)
(* the remote source client (artApi.ts) and the page controller            *)
(* (components/ArtTable.tsx), as one state machine.                        *)
(*                                                                         *)
(* React state (rows, meta, loading, the tracker's count) is modelled by   *)
(* its latest value.  A step of the application (Spec) is a handler or a   *)
(* promise continuation together with the re-render React performs after   *)
(* it, so the closures of the next handler hold the latest rows, meta and  *)
(* count.  The tracker on its own (SpecTracker) is finer: a caller of the  *)
(* hook reads getSelectedCount() through the closure of the last render,   *)
(* so the model keeps both that value (selectedCount) and the value React  *)
(* holds (countState), and Render is a step of its own.                    *)
(***************************************************************************)
EXTENDS Integers, Sequences, FiniteSets, TLC

\* ---- bounds of the model ------------------------------------------------
\* rows per page requested from the remote source (12 in ArtTable.tsx:55,
\* scaled down so that the selection map stays enumerable)
PAGE_SIZE == 2
\* records in the remote catalogue
NumRecords == 5
\* requests to the remote source that may be in flight together
MaxInFlight == 2
\* largest count typed into the auto-select input
MaxCount == 2

Ids == 1..NumRecords
Missing == 0 - 1

Min(a, b) == IF a < b THEN a ELSE b

\* Math.ceil(a / b) for a >= 0, b > 0
CeilDiv(a, b) == (a + b - 1) \div b

\* x ?? d
Coalesce(x, d) == IF x = Missing THEN d ELSE x

\* ---- the remote catalogue (environment) ----------------------------------
NumPages == CeilDiv(NumRecords, PAGE_SIZE)

\* json.data of the response for ?page=p&limit=limit
ServerData(p, limit) ==
  LET first == (p - 1) * limit
      n == IF first >= NumRecords THEN 0 ELSE Min(limit, NumRecords - first)
  IN [i \in 1..n |-> first + i]

\* json.pagination of a response for a request with the given limit: the
\* server may send it whole or leave total_pages out
ServerPaginations(limit) ==
  { [total |-> NumRecords, limit |-> limit, total_pages |-> CeilDiv(NumRecords, limit)],
    [total |-> NumRecords, limit |-> limit, total_pages |-> Missing] }

\* ---- artApi.ts -----------------------------------------------------------
\* the value fetchArtworksPage resolves to when res.ok
fetchArtworksPage(page, limit, pag) ==
  [ data |-> ServerData(page, limit),
    pagination |->
      [ total |-> Coalesce(pag.total, 0),
        limit |-> Coalesce(pag.limit, limit),
        offset |-> (page - 1) * limit,
        total_pages |-> Coalesce(pag.total_pages,
                                 CeilDiv(Coalesce(pag.total, 0), limit)) ] ]

\* ---- useSelectionTracker.ts ----------------------------------------------
EmptyMap == [k \in {} |-> "selected"]

\* userActionsRef.current[id] = action
Upsert(m, id, action) ==
  [k \in (DOMAIN m) \cup {id} |-> IF k = id THEN action ELSE m[k]]

\* variant: the map is rebuilt from the given ids alone
UpsertAllRebuilds(m, ids, action) == [k \in ids |-> action]

\* for (const id of ids) userActionsRef.current[id] = action
UpsertAll(m, ids, action) ==
  [k \in (DOMAIN m) \cup ids |-> IF k \in ids THEN action ELSE m[k]]

\* userActionsRef.current[id] === 'selected'
isSelectedIn(m, id) == id \in DOMAIN m /\ m[id] = "selected"

\* the count recount() hands to setSelectedCount
recount(m) == Cardinality({k \in DOMAIN m : m[k] = "selected"})

RECURSIVE SortedSeq(_)
SortedSeq(S) ==
  IF S = {} THEN <<>>
  ELSE LET x == CHOOSE x \in S : \A y \in S : x <= y
       IN <<x>> \o SortedSeq(S \ {x})

\* JSON.stringify(userActionsRef.current): the members of the object, integer
\* keys in ascending order
Stringify(m) ==
  LET keys == SortedSeq(DOMAIN m)
  IN [kind |-> "object",
      members |-> [i \in 1..Len(keys) |-> <<keys[i], m[keys[i]]>>]]

\* variant: only the selected members are read back
ParseKeepsSelected(text) ==
  LET ms == SelectSeq(text.members, LAMBDA pr : pr[2] = "selected")
  IN [k \in {ms[i][1] : i \in 1..Len(ms)} |-> "selected"]

\* JSON.parse of an object text
Parse(text) ==
  LET ms == text.members
  IN [k \in {ms[i][1] : i \in 1..Len(ms)} |->
        (CHOOSE pr \in {ms[i] : i \in 1..Len(ms)} : pr[1] = k)[2]]

NoItem == [kind |-> "absent", members |-> <<>>]
NullText == [kind |-> "null", members |-> <<>>]
InvalidText == [kind |-> "invalid", members |-> <<>>]

\* variant: only the selected entries are written
persistSelectedOnly(m, stored, full) ==
  IF full THEN stored
  ELSE Stringify([k \in {j \in DOMAIN m : m[j] = "selected"} |-> "selected"])

\* persist(): the stored value after the call; a throwing setItem is swallowed
persist(m, stored, full) == IF full THEN stored ELSE Stringify(m)

\* hydrate(): the map after the call (m when nothing is loaded)
hydrate(m, stored) ==
  CASE stored.kind = "absent" -> m
    [] stored.kind = "invalid" -> m
    [] stored.kind = "null" -> EmptyMap
    [] OTHER -> Parse(stored)

\* whether hydrate() reached its recount()
hydrateRecounts(stored) == stored.kind \in {"null", "object"}

\* variant: every row the map knows is kept
selectedOnPageOfKnown(m, rs) == SelectSeq(rs, LAMBDA id : id \in DOMAIN m)

\* rows.filter(r => userActionsRef.current[r.id] === 'selected')
selectedOnPage(m, rs) == SelectSeq(rs, LAMBDA id : isSelectedIn(m, id))

\* ---- ArtTable.tsx --------------------------------------------------------
\* variant: the page number is taken from the offset without the + 1
MetaOfOffByOne(page, resp) ==
  [page |-> resp.pagination.offset \div PAGE_SIZE, totalPages |-> NumPages,
   total |-> resp.pagination.total, limit |-> resp.pagination.limit]

\* the meta fetchPage sets from a response
MetaOf(page, resp) ==
  LET total == Coalesce(resp.pagination.total, 0)
      limit == Coalesce(resp.pagination.limit, PAGE_SIZE)
      tp == Coalesce(resp.pagination.total_pages, CeilDiv(total, limit))
  IN [page |-> page, totalPages |-> IF tp = 0 THEN 1 ELSE tp,
      total |-> total, limit |-> limit]

\* variant: ids that are selected already count towards `count` too
RECURSIVE WalkBatchCountsAll(_, _, _, _)
WalkBatchCountsAll(batch, m, collected, count) ==
  IF batch = <<>> \/ collected >= count
  THEN [m |-> m, collected |-> collected]
  ELSE WalkBatchCountsAll(Tail(batch), Upsert(m, Head(batch), "selected"),
                          collected + 1, count)

\* the body of one pass of handleAutoSelectNext's for loop over a batch:
\* the map and the collected counter after it
RECURSIVE WalkBatch(_, _, _, _)
WalkBatch(batch, m, collected, count) ==
  IF batch = <<>> \/ collected >= count
  THEN [m |-> m, collected |-> collected]
  ELSE IF ~isSelectedIn(m, Head(batch))
       THEN WalkBatch(Tail(batch), Upsert(m, Head(batch), "selected"),
                      collected + 1, count)
       ELSE WalkBatch(Tail(batch), m, collected, count)

SeqRange(s) == {s[i] : i \in 1..Len(s)}
RemoveAt(s, i) == SubSeq(s, 1, i - 1) \o SubSeq(s, i + 1, Len(s))
SelectedIds(m) == {k \in DOMAIN m : m[k] = "selected"}

VARIABLES
  userActions,   \* userActionsRef.current
  countState,    \* the selectedCount state React holds
  selectedCount, \* what getSelectedCount() returns (closure of the last render)
  storage,       \* localStorage['art-selection-v1']
  storageFull,   \* setItem throws
  rows,          \* Page View
  meta,          \* Page Metadata
  loading,
  mounted,       \* the mount effects have run
  inflight,      \* fetchPage calls awaiting fetchArtworksPage, oldest first
  walk,          \* the running handleAutoSelectNext call
  latest,        \* history: the last action applied to each id
  loaded,        \* history: some fetchPage has succeeded
  lastOp,        \* history: the step taken last
  before,        \* history: the ids selected when the observed walk began
  returned,      \* what the last selectedOnPage(rows) call returned
  other,         \* a second handleAutoSelectNext call, running beside `walk`
  task           \* the onSelectionChange call that is running, and its position

vars == <<userActions, countState, selectedCount, storage, storageFull, rows,
          meta, loading, mounted, inflight, walk, latest, loaded, lastOp, before,
          returned, other, task>>

\* what the tracker owns, and what the page controller owns
pageVars == <<rows, meta, loading, inflight, walk, loaded>>

IdleWalk == [pc |-> "idle", count |-> 0, collected |-> 0, p |-> 0, page |-> 0,
             totalPages |-> 0]

\* no onSelectionChange call is running
\* (sel, desel: the markSelected and markDeselected calls still to make;
\* history: the checked ids, and the map and the stored value at its start)
IdleTask == [pc |-> "idle", sel |-> <<>>, desel |-> <<>>, checked |-> {},
             base |-> <<>>, stored |-> <<>>]

\* what only some of the specifications below let change
aux == <<before, returned, other, task>>

Op(name, n) == [op |-> name, n |-> n]

Hist(m) == [id \in Ids |-> IF id \in DOMAIN m THEN m[id] ELSE "none"]

\* the sample map a previous session may have left in storage
StoredSample == [k \in {1, NumRecords} |-> IF k = 1 THEN "selected" ELSE "deselected"]
InitialStorage == {NoItem, InvalidText, NullText, Stringify(StoredSample)}

\* a stored text that parses, but not into id -> 'selected' | 'deselected'
MisshapenText ==
  [kind |-> "object", members |-> <<<<1, "selected">>, <<2, "unknown">>>>]

\* the state after the first render: useRef({}), useState(0), useState([]),
\* useState({page: 1, totalPages: 1, total: 0, limit: PAGE_SIZE})
Constructed ==
  /\ userActions = EmptyMap
  /\ countState = 0
  /\ selectedCount = 0
  /\ rows = <<>>
  /\ meta = [page |-> 1, totalPages |-> 1, total |-> 0, limit |-> PAGE_SIZE]
  /\ loading = FALSE
  /\ mounted = FALSE
  /\ inflight = <<>>
  /\ walk = IdleWalk
  /\ latest = Hist(EmptyMap)
  /\ loaded = FALSE
  /\ lastOp = Op("init", 0)
  /\ before = {}
  /\ returned = <<>>
  /\ other = IdleWalk
  /\ task = IdleTask

Init == Constructed /\ storage \in InitialStorage /\ storageFull = FALSE

\* ---- the tracker's calls ---------------------------------------------------
\* variant: a failed write undoes the mutation
CommitRollsBack(m, hist) ==
  /\ userActions' = IF storageFull THEN userActions ELSE m
  /\ countState' = recount(userActions')
  /\ storage' = persist(m, storage, storageFull)
  /\ latest' = IF storageFull THEN latest ELSE hist

\* a mutation's recount() and persist(), and the history of the ids
Commit(m, hist) ==
  /\ userActions' = m
  /\ countState' = recount(m)
  /\ storage' = persist(m, storage, storageFull)
  /\ latest' = hist

\* init(): hydrate()
TrackerInit ==
  /\ userActions' = hydrate(userActions, storage)
  /\ countState' = IF hydrateRecounts(storage) THEN recount(userActions') ELSE countState
  /\ latest' = Hist(userActions')
  /\ UNCHANGED <<storage, storageFull>>

\* variant: marking a selected id again deselects it
markSelectedFlips(id) ==
  IF isSelectedIn(userActions, id)
  THEN Commit(Upsert(userActions, id, "deselected"), [latest EXCEPT ![id] = "deselected"])
  ELSE Commit(Upsert(userActions, id, "selected"), [latest EXCEPT ![id] = "selected"])

markSelected(id) ==
  Commit(Upsert(userActions, id, "selected"), [latest EXCEPT ![id] = "selected"])

markDeselected(id) ==
  Commit(Upsert(userActions, id, "deselected"), [latest EXCEPT ![id] = "deselected"])

toggle(id, checked) == IF checked THEN markSelected(id) ELSE markDeselected(id)

\* variant: the stored value is written before the rows are marked
selectAllOnPageStoresFirst(rs) ==
  /\ userActions' = UpsertAll(userActions, SeqRange(rs), "selected")
  /\ countState' = recount(userActions')
  /\ storage' = persist(userActions, storage, storageFull)
  /\ latest' = [id \in Ids |-> IF id \in SeqRange(rs) THEN "selected" ELSE latest[id]]

selectAllOnPage(rs) ==
  Commit(UpsertAll(userActions, SeqRange(rs), "selected"),
         [id \in Ids |-> IF id \in SeqRange(rs) THEN "selected" ELSE latest[id]])

deselectAllOnPage(rs) ==
  Commit(UpsertAll(userActions, SeqRange(rs), "deselected"),
         [id \in Ids |-> IF id \in SeqRange(rs) THEN "deselected" ELSE latest[id]])

clearAll == Commit(EmptyMap, [id \in Ids |-> "none"])

\* ---- the page controller ---------------------------------------------------
\* requests awaiting the remote source: the fetchPage calls and the walk's batch
Outstanding ==
  Len(inflight) + (IF walk.pc = "batch" THEN 1 ELSE 0)
                + (IF other.pc = "batch" THEN 1 ELSE 0)
SlotFree == Outstanding < MaxInFlight

\* fetchPage(page) up to its await: setLoading(true) and the request
CallFetchPage(page, restore) ==
  /\ SlotFree
  /\ loading' = TRUE
  /\ inflight' = Append(inflight, [page |-> page, restore |-> restore, stale |-> FALSE])

\* the re-render after a step of the application
Rerender == selectedCount' = countState'

\* the two mount effects: sel.init() and fetchPage(1)
Mount ==
  /\ ~mounted
  /\ mounted' = TRUE
  /\ TrackerInit
  /\ CallFetchPage(1, FALSE)
  /\ lastOp' = Op("mount", 0)
  /\ UNCHANGED <<rows, meta, walk, loaded>>
  /\ Rerender

\* history: the calls issued before call i are outdated once i's response
\* has been applied
Outdated(calls, i) ==
  [j \in 1..Len(calls) |-> IF j < i THEN [calls[j] EXCEPT !.stale = TRUE] ELSE calls[j]]

\* fetchPage: the awaited fetchArtworksPage resolves
FetchPageOk(i, pag) ==
  /\ mounted
  /\ i \in 1..Len(inflight)
  /\ LET req == inflight[i]
         resp == fetchArtworksPage(req.page, PAGE_SIZE, pag)
     IN /\ rows' = resp.data
        /\ meta' = MetaOf(req.page, resp)
        /\ walk' = IF req.restore THEN IdleWalk ELSE walk
        /\ lastOp' = Op(IF req.restore THEN "restoreOk" ELSE "fetchOk",
                        IF req.restore THEN walk.collected ELSE 0)
  /\ loaded' = TRUE
  /\ loading' = FALSE
  /\ inflight' = RemoveAt(Outdated(inflight, i), i)
  /\ UNCHANGED <<userActions, countState, storage, storageFull, mounted, latest>>
  /\ Rerender

\* variant: a failed fetch blanks the table
FetchPageFailBlanks(i) ==
  /\ mounted
  /\ i \in 1..Len(inflight)
  /\ LET req == inflight[i]
     IN /\ walk' = IF req.restore THEN IdleWalk ELSE walk
        /\ lastOp' = Op(IF req.restore THEN "restoreFail" ELSE "fetchFail", 0)
  /\ rows' = <<>>
  /\ loading' = FALSE
  /\ inflight' = RemoveAt(inflight, i)
  /\ UNCHANGED <<userActions, countState, storage, storageFull, meta, mounted,
                 latest, loaded>>
  /\ Rerender

\* fetchPage: the awaited fetchArtworksPage throws (network error or !res.ok)
FetchPageFail(i) ==
  /\ mounted
  /\ i \in 1..Len(inflight)
  /\ LET req == inflight[i]
     IN /\ walk' = IF req.restore THEN IdleWalk ELSE walk
        /\ lastOp' = Op(IF req.restore THEN "restoreFail" ELSE "fetchFail", 0)
  /\ loading' = FALSE
  /\ inflight' = RemoveAt(inflight, i)
  /\ UNCHANGED <<userActions, countState, storage, storageFull, rows, meta,
                 mounted, latest, loaded>>
  /\ Rerender

\* variant: the upper bound is off by one
goToPageIgnoresLate(page) == page < 1 \/ page > meta.totalPages + 1

\* goToPage returns without fetching
goToPageIgnores(page) == page < 1 \/ page > meta.totalPages

GoToPage(page) ==
  /\ mounted
  /\ IF goToPageIgnores(page)
     THEN /\ lastOp' = Op("goToPageIgnored", IF page < 1 THEN 0 ELSE 1)
          /\ UNCHANGED <<loading, inflight>>
     ELSE /\ CallFetchPage(page, FALSE)
          /\ lastOp' = Op("goToPage", 0)
  /\ UNCHANGED <<userActions, countState, storage, storageFull, rows, meta,
                 mounted, walk, latest, loaded>>
  /\ Rerender

\* variant: the unchecked rows of the page are left as they were
ReconcileOnlySelects(m, rs, S) == UpsertAll(m, S, "selected")

\* the map after onSelectionChange({value}), S the ids of value: markSelected
\* for every id of S, then markDeselected for every row not in S
Reconcile(m, rs, S) ==
  UpsertAll(UpsertAll(m, S, "selected"), SeqRange(rs) \ S, "deselected")

\* the table reports the rows of the page that are now checked
OnSelectionChange(S) ==
  /\ mounted
  /\ S \subseteq SeqRange(rows)
  /\ IF rows = <<>>
     THEN UNCHANGED <<userActions, countState, storage, latest>>
     ELSE Commit(Reconcile(userActions, rows, S),
                 [id \in Ids |-> IF id \in S THEN "selected"
                                 ELSE IF id \in SeqRange(rows) THEN "deselected"
                                 ELSE latest[id]])
  /\ lastOp' = Op("onSelectionChange", 0)
  /\ UNCHANGED <<storageFull, mounted, pageVars>>
  /\ Rerender

HandleSelectAllOnPage ==
  /\ mounted
  /\ selectAllOnPage(rows)
  /\ lastOp' = Op("selectAllOnPage", 0)
  /\ UNCHANGED <<storageFull, mounted, pageVars>>
  /\ Rerender

HandleDeselectAllOnPage ==
  /\ mounted
  /\ deselectAllOnPage(rows)
  /\ lastOp' = Op("deselectAllOnPage", 0)
  /\ UNCHANGED <<storageFull, mounted, pageVars>>
  /\ Rerender

HandleClearAll ==
  /\ mounted
  /\ clearAll
  /\ lastOp' = Op("clearAll", 0)
  /\ UNCHANGED <<storageFull, mounted, pageVars>>
  /\ Rerender

\* variant: the walk restores the page it stopped at
WalkRestoreWalked(w) ==
  /\ Len(inflight) < MaxInFlight
  /\ loading' = TRUE
  /\ inflight' = Append(inflight, [page |-> w.p - 1, restore |-> TRUE, stale |-> FALSE])
  /\ walk' = [w EXCEPT !.pc = "restore"]

\* handleAutoSelectNext leaves its while loop: await fetchPage(meta.page),
\* meta being the closure's
WalkRestore(w) ==
  /\ Len(inflight) < MaxInFlight
  /\ loading' = TRUE
  /\ inflight' = Append(inflight, [page |-> w.page, restore |-> TRUE, stale |-> FALSE])
  /\ walk' = [w EXCEPT !.pc = "restore"]

\* variant: the first batch is requested without the test against totalPages
AutoSelectNextUnbounded(count) ==
  /\ mounted
  /\ walk.pc = "idle"
  /\ LET w == [pc |-> "batch", count |-> count, collected |-> 0,
               p |-> meta.page + 1, page |-> meta.page,
               totalPages |-> meta.totalPages]
     IN IF w.collected < w.count
        THEN /\ SlotFree
             /\ walk' = w
             /\ UNCHANGED <<loading, inflight>>
        ELSE WalkRestore(w)
  /\ lastOp' = Op("autoSelectNext", 0)
  /\ UNCHANGED <<userActions, countState, storage, storageFull, rows, meta,
                 mounted, latest, loaded>>
  /\ Rerender

\* handleAutoSelectNext(count) up to its first await
AutoSelectNext(count) ==
  /\ mounted
  /\ walk.pc = "idle"
  /\ LET w == [pc |-> "batch", count |-> count, collected |-> 0,
               p |-> meta.page + 1, page |-> meta.page,
               totalPages |-> meta.totalPages]
     IN IF w.collected < w.count /\ w.p <= w.totalPages
        THEN /\ SlotFree
             /\ walk' = w
             /\ UNCHANGED <<loading, inflight>>
        ELSE WalkRestore(w)
  /\ lastOp' = Op("autoSelectNext", 0)
  /\ UNCHANGED <<userActions, countState, storage, storageFull, rows, meta,
                 mounted, latest, loaded>>
  /\ Rerender

\* the walk's awaited fetchArtworksPage(p) resolves: the for loop over the
\* batch (a markSelected per id taken), p++, and the while test
WalkBatchOk(pag) ==
  /\ mounted
  /\ walk.pc = "batch"
  /\ LET batch == fetchArtworksPage(walk.p, PAGE_SIZE, pag).data
         r == WalkBatch(batch, userActions, walk.collected, walk.count)
         fresh == SelectedIds(r.m) \ SelectedIds(userActions)
         w == [walk EXCEPT !.collected = r.collected, !.p = walk.p + 1]
     IN /\ IF fresh = {}
           THEN UNCHANGED <<userActions, countState, storage, latest>>
           ELSE Commit(r.m, [id \in Ids |-> IF id \in fresh THEN "selected"
                                            ELSE latest[id]])
        /\ IF w.collected < w.count /\ w.p <= w.totalPages
           THEN /\ walk' = w
                /\ UNCHANGED <<loading, inflight>>
           ELSE WalkRestore(w)
  /\ lastOp' = Op("walkBatch", 0)
  /\ UNCHANGED <<storageFull, rows, meta, mounted, loaded>>
  /\ Rerender

\* variant: a failed batch fetch undoes the selection
WalkBatchFailClears ==
  /\ mounted
  /\ walk.pc = "batch"
  /\ walk' = IdleWalk
  /\ clearAll
  /\ lastOp' = Op("walkFail", walk.collected)
  /\ UNCHANGED <<storageFull, rows, meta, loading, mounted, inflight, loaded>>
  /\ Rerender

\* the walk's awaited fetchArtworksPage(p) throws: handleAutoSelectNext rejects
WalkBatchFail ==
  /\ mounted
  /\ walk.pc = "batch"
  /\ walk' = IdleWalk
  /\ lastOp' = Op("walkFail", walk.collected)
  /\ UNCHANGED <<userActions, countState, storage, storageFull, rows, meta,
                 loading, mounted, inflight, latest, loaded>>
  /\ Rerender

\* ---- a second handleAutoSelectNext call beside a running one --------------
\* the button that calls handleAutoSelectNext is never disabled, so the
\* handler may be entered again while a call awaits a batch or its closing
\* fetchPage; `other` is that second call
\* its closing await fetchPage(meta.page): the call is over once that returns
OtherRestore(w) ==
  /\ Len(inflight) < MaxInFlight
  /\ loading' = TRUE
  /\ inflight' = Append(inflight, [page |-> w.page, restore |-> FALSE, stale |-> FALSE])
  /\ other' = IdleWalk

\* handleAutoSelectNext(count), entered while a call is running, up to its
\* first await
AutoSelectNextAgain(count) ==
  /\ mounted
  /\ walk.pc # "idle"
  /\ other.pc = "idle"
  /\ LET w == [pc |-> "batch", count |-> count, collected |-> 0,
               p |-> meta.page + 1, page |-> meta.page,
               totalPages |-> meta.totalPages]
     IN IF w.collected < w.count /\ w.p <= w.totalPages
        THEN /\ SlotFree
             /\ other' = w
             /\ UNCHANGED <<loading, inflight>>
        ELSE OtherRestore(w)
  /\ lastOp' = Op("autoSelectNextAgain", 0)
  /\ UNCHANGED <<userActions, countState, storage, storageFull, rows, meta,
                 mounted, walk, latest, loaded>>
  /\ Rerender

\* the second call's awaited fetchArtworksPage(p) resolves
OtherBatchOk(pag) ==
  /\ mounted
  /\ other.pc = "batch"
  /\ LET batch == fetchArtworksPage(other.p, PAGE_SIZE, pag).data
         r == WalkBatch(batch, userActions, other.collected, other.count)
         fresh == SelectedIds(r.m) \ SelectedIds(userActions)
         w == [other EXCEPT !.collected = r.collected, !.p = other.p + 1]
     IN /\ IF fresh = {}
           THEN UNCHANGED <<userActions, countState, storage, latest>>
           ELSE Commit(r.m, [id \in Ids |-> IF id \in fresh THEN "selected"
                                            ELSE latest[id]])
        /\ IF w.collected < w.count /\ w.p <= w.totalPages
           THEN /\ other' = w
                /\ UNCHANGED <<loading, inflight>>
           ELSE OtherRestore(w)
  /\ lastOp' = Op("otherBatch", 0)
  /\ UNCHANGED <<storageFull, rows, meta, mounted, walk, loaded>>
  /\ Rerender

\* the second call's awaited fetchArtworksPage(p) throws
OtherBatchFail ==
  /\ mounted
  /\ other.pc = "batch"
  /\ other' = IdleWalk
  /\ lastOp' = Op("otherFail", other.collected)
  /\ UNCHANGED <<userActions, countState, storage, storageFull, rows, meta,
                 loading, mounted, inflight, walk, latest, loaded>>
  /\ Rerender

\* ---- the application: every handler and every response, in any order -----
Next ==
  \/ Mount /\ UNCHANGED aux
  \/ \E i \in 1..MaxInFlight : \E pag \in ServerPaginations(PAGE_SIZE) :
       FetchPageOk(i, pag) /\ UNCHANGED aux
  \/ \E i \in 1..MaxInFlight : FetchPageFail(i) /\ UNCHANGED aux
  \/ \E page \in 0..(NumPages + 1) : GoToPage(page) /\ UNCHANGED aux
  \/ \E S \in SUBSET SeqRange(rows) : OnSelectionChange(S) /\ UNCHANGED aux
  \/ HandleSelectAllOnPage /\ UNCHANGED aux
  \/ HandleDeselectAllOnPage /\ UNCHANGED aux
  \/ HandleClearAll /\ UNCHANGED aux
  \/ \E count \in 0..MaxCount : AutoSelectNext(count) /\ UNCHANGED aux
  \/ \E pag \in ServerPaginations(PAGE_SIZE) : WalkBatchOk(pag) /\ UNCHANGED aux
  \/ WalkBatchFail /\ UNCHANGED aux

Spec == Init /\ [][Next]_vars

\* ---- navigation, clearing and up to two auto-select calls at once ---------
NextWalks ==
  \/ Mount /\ UNCHANGED aux
  \/ \E i \in 1..MaxInFlight : \E pag \in ServerPaginations(PAGE_SIZE) :
       FetchPageOk(i, pag) /\ UNCHANGED aux
  \/ \E i \in 1..MaxInFlight : FetchPageFail(i) /\ UNCHANGED aux
  \/ \E page \in 1..NumPages : GoToPage(page) /\ UNCHANGED aux
  \/ HandleClearAll /\ UNCHANGED aux
  \/ \E count \in 0..MaxCount : AutoSelectNext(count) /\ UNCHANGED aux
  \/ \E pag \in ServerPaginations(PAGE_SIZE) : WalkBatchOk(pag) /\ UNCHANGED aux
  \/ WalkBatchFail /\ UNCHANGED aux
  \/ \E count \in 0..MaxCount :
       AutoSelectNextAgain(count) /\ UNCHANGED <<before, returned, task>>
  \/ \E pag \in ServerPaginations(PAGE_SIZE) :
       OtherBatchOk(pag) /\ UNCHANGED <<before, returned, task>>
  \/ OtherBatchFail /\ UNCHANGED <<before, returned, task>>

SpecWalks == Init /\ [][NextWalks]_vars

\* ---- one auto-select call on its own --------------------------------------
\* The application runs as above while no walk is running (one request at a
\* time); a walk then runs from its call to its end with nothing interleaved,
\* and `before` holds the ids that were selected when it was called.
NextWalk ==
  \/ Mount /\ UNCHANGED aux
  \/ \E page \in 1..NumPages :
       walk.pc = "idle" /\ inflight = <<>> /\ GoToPage(page) /\ UNCHANGED aux
  \/ \E S \in SUBSET SeqRange(rows) :
       walk.pc = "idle" /\ OnSelectionChange(S) /\ UNCHANGED aux
  \/ walk.pc = "idle" /\ HandleClearAll /\ UNCHANGED aux
  \/ \E pag \in ServerPaginations(PAGE_SIZE) :
       FetchPageOk(1, pag) /\ before' = {} /\ UNCHANGED <<returned, other, task>>
  \/ walk.pc = "restore" /\ FetchPageFail(1) /\ before' = {} /\ UNCHANGED <<returned, other, task>>
  \/ \E count \in 0..MaxCount :
       /\ inflight = <<>>
       /\ AutoSelectNext(count)
       /\ before' = SelectedIds(userActions) /\ UNCHANGED <<returned, other, task>>
  \/ \E pag \in ServerPaginations(PAGE_SIZE) : WalkBatchOk(pag) /\ UNCHANGED aux
  \/ WalkBatchFail /\ before' = {} /\ UNCHANGED <<returned, other, task>>

SpecWalk == Init /\ [][NextWalk]_vars

\* ---- the tracker on its own: the hook's calls, made by any caller --------
\* the row lists a caller may pass: a page of the catalogue, or none
RowLists == {ServerData(p, PAGE_SIZE) : p \in 1..NumPages} \cup {<<>>}

\* the lists selectedOnPage is called with: those, one out of order and one
\* that repeats a row
RowArgs == RowLists \cup {<<NumRecords, 1>>, <<2, 1, 2>>}

CallInit ==
  /\ ~mounted
  /\ mounted' = TRUE
  /\ TrackerInit
  /\ lastOp' = Op("init()", 0)
  /\ UNCHANGED <<selectedCount, pageVars, aux>>

CallMarkSelected(id) ==
  /\ mounted
  /\ markSelected(id)
  /\ lastOp' = Op("markSelected", id)
  /\ UNCHANGED <<selectedCount, storageFull, mounted, pageVars, aux>>

CallMarkDeselected(id) ==
  /\ mounted
  /\ markDeselected(id)
  /\ lastOp' = Op("markDeselected", id)
  /\ UNCHANGED <<selectedCount, storageFull, mounted, pageVars, aux>>

CallToggle(id, checked) ==
  /\ mounted
  /\ toggle(id, checked)
  /\ lastOp' = Op("toggle", id)
  /\ UNCHANGED <<selectedCount, storageFull, mounted, pageVars, aux>>

CallSelectAllOnPage(rs) ==
  /\ mounted
  /\ selectAllOnPage(rs)
  /\ lastOp' = Op("selectAllOnPage", Len(rs))
  /\ UNCHANGED <<selectedCount, storageFull, mounted, pageVars, aux>>

CallDeselectAllOnPage(rs) ==
  /\ mounted
  /\ deselectAllOnPage(rs)
  /\ lastOp' = Op("deselectAllOnPage", Len(rs))
  /\ UNCHANGED <<selectedCount, storageFull, mounted, pageVars, aux>>

CallClearAll ==
  /\ mounted
  /\ clearAll
  /\ lastOp' = Op("clearAll", 0)
  /\ UNCHANGED <<selectedCount, storageFull, mounted, pageVars, aux>>

\* selectedOnPage(rs), called with any list of rows
CallSelectedOnPage(rs) ==
  /\ mounted
  /\ returned' = selectedOnPage(userActions, rs)
  /\ lastOp' = Op("selectedOnPage", Len(rs))
  /\ UNCHANGED <<userActions, countState, selectedCount, storage, storageFull,
                 mounted, latest, pageVars, before, other, task>>

\* the page is loaded again: the hook is constructed anew (useRef({}),
\* useState(0)) over the same storage, and the mount effect calls init()
Reload ==
  /\ mounted
  /\ userActions' = hydrate(EmptyMap, storage)
  /\ countState' = IF hydrateRecounts(storage) THEN recount(userActions') ELSE 0
  /\ selectedCount' = 0
  /\ latest' = Hist(userActions')
  /\ lastOp' = Op("reload", 0)
  /\ UNCHANGED <<storage, storageFull, mounted, pageVars, aux>>

\* React re-renders the component that owns the hook: its callers now read
\* the count React holds
Render ==
  /\ selectedCount # countState
  /\ selectedCount' = countState
  /\ lastOp' = Op("render", 0)
  /\ UNCHANGED <<userActions, countState, storage, storageFull, mounted,
                 latest, pageVars, aux>>

NextTracker ==
  \/ CallInit
  \/ \E id \in Ids : CallMarkSelected(id)
  \/ \E id \in Ids : CallMarkDeselected(id)
  \/ \E id \in Ids : \E checked \in BOOLEAN : CallToggle(id, checked)
  \/ \E rs \in RowLists : CallSelectAllOnPage(rs)
  \/ \E rs \in RowLists : CallDeselectAllOnPage(rs)
  \/ CallClearAll
  \/ Reload
  \/ Render

InitTracker ==
  /\ Constructed
  /\ storage \in InitialStorage \cup {MisshapenText}
  /\ storageFull \in BOOLEAN

SpecTracker == InitTracker /\ [][NextTracker]_vars

\* ---- the tracker's queries: single marks, then selectedOnPage ------------
NextQuery ==
  \/ CallInit
  \/ \E id \in Ids : CallMarkSelected(id)
  \/ \E id \in Ids : CallMarkDeselected(id)
  \/ CallClearAll
  \/ \E rs \in RowArgs : CallSelectedOnPage(rs)

SpecQuery == InitTracker /\ [][NextQuery]_vars

\* ---- the handlers write by write, over a storage that may fill up --------
\* A handler without an await runs to its end before any other handler, any
\* promise continuation or any render; localStorage is shared with whatever
\* else runs on the origin and may become full between two writes.  A step
\* here ends with a call of persist(): selectAllOnPage, deselectAllOnPage and
\* clearAll are one step, onSelectionChange is one step per markSelected or
\* markDeselected it calls.
\* the orders in which e.value may list the checked rows
Orders(S) ==
  {sq \in [1..Cardinality(S) -> S] : \A i, j \in DOMAIN sq : sq[i] = sq[j] => i = j}

\* onSelectionChange({value}) is entered: newlySelectedIds is built
BeginSelectionChange(S, order) ==
  /\ mounted
  /\ task.pc = "idle"
  /\ S \subseteq SeqRange(rows)
  /\ order \in Orders(S)
  /\ rows # <<>>
  /\ task' = [pc |-> "run", sel |-> order,
              desel |-> SelectSeq(rows, LAMBDA id : id \notin S),
              checked |-> S, base |-> userActions, stored |-> storage]
  /\ lastOp' = Op("selectionBegin", 0)
  /\ UNCHANGED <<userActions, countState, selectedCount, storage, storageFull,
                 mounted, latest, pageVars, before, returned, other>>

\* its next sel.markSelected(id) or sel.markDeselected(r.id); after the last
\* one the handler returns and React re-renders
SelectionChangeStep ==
  /\ task.pc = "run"
  /\ LET marks == task.sel # <<>>
         id == IF marks THEN Head(task.sel) ELSE Head(task.desel)
         t == IF marks THEN [task EXCEPT !.sel = Tail(@)]
                       ELSE [task EXCEPT !.desel = Tail(@)]
         done == t.sel = <<>> /\ t.desel = <<>>
     IN /\ IF marks THEN markSelected(id) ELSE markDeselected(id)
        /\ task' = IF done THEN IdleTask ELSE t
        /\ lastOp' = Op(IF done THEN "onSelectionChange" ELSE "selectionStep", id)
        /\ selectedCount' = IF done THEN countState' ELSE selectedCount
  /\ UNCHANGED <<storageFull, mounted, pageVars, before, returned, other>>

\* the storage becomes full: setItem throws from now on
StorageFills ==
  /\ ~storageFull
  /\ storageFull' = TRUE
  /\ UNCHANGED <<userActions, countState, selectedCount, storage, mounted,
                 latest, lastOp, pageVars, aux>>

NextSteps ==
  \/ Mount /\ UNCHANGED aux
  \/ \E pag \in ServerPaginations(PAGE_SIZE) :
       task.pc = "idle" /\ FetchPageOk(1, pag) /\ UNCHANGED aux
  \/ \E page \in 1..2 :
       task.pc = "idle" /\ inflight = <<>> /\ GoToPage(page) /\ UNCHANGED aux
  \/ \E S \in SUBSET SeqRange(rows) : \E order \in Orders(S) :
       BeginSelectionChange(S, order)
  \/ SelectionChangeStep
  \/ task.pc = "idle" /\ HandleSelectAllOnPage /\ UNCHANGED aux
  \/ task.pc = "idle" /\ HandleDeselectAllOnPage /\ UNCHANGED aux
  \/ task.pc = "idle" /\ HandleClearAll /\ UNCHANGED aux
  \/ StorageFills

SpecSteps == Init /\ [][NextSteps]_vars

\* ---- navigation against a remote source that answers as it likes ---------
\* json.pagination as any server may send it: total, limit and total_pages
\* each present or left out, the limit its own or the one requested
RawPaginations ==
  {[total |-> t, limit |-> l, total_pages |-> tp] :
     t \in {Missing, 0, 1, NumRecords},
     l \in {Missing, PAGE_SIZE, PAGE_SIZE + 1},
     tp \in {Missing, NumPages}}

NextMeta ==
  \/ Mount /\ UNCHANGED aux
  \/ \E i \in 1..MaxInFlight : \E pag \in RawPaginations :
       FetchPageOk(i, pag) /\ UNCHANGED aux
  \/ \E i \in 1..MaxInFlight : FetchPageFail(i) /\ UNCHANGED aux
  \/ \E page \in 0..(NumPages + 1) : GoToPage(page) /\ UNCHANGED aux

SpecMeta == Init /\ [][NextMeta]_vars

\* ---- properties -----------------------------------------------------------
isSelected(id) == isSelectedIn(userActions, id)
PageIds == SeqRange(rows)
EntryOf(m, id) == IF id \in DOMAIN m THEN m[id] ELSE "none"

\* C1: whenever a caller can look, getSelectedCount() equals the number of
\* map entries whose action is selected; the count never lags the map.
C1_CountNeverLags ==
  selectedCount = Cardinality({id \in DOMAIN userActions : userActions[id] = "selected"})

\* C2: an id is selected iff the last action applied to it since the last
\* clearAll (actions restored from storage count) was selected, an id never
\* acted upon is not selected, and no navigation step changes any entry.
NavigationStep ==
  \/ \E page \in 0..(NumPages + 1) : GoToPage(page)
  \/ \E i \in 1..MaxInFlight : \E pag \in ServerPaginations(PAGE_SIZE) : FetchPageOk(i, pag)
  \/ \E i \in 1..MaxInFlight : FetchPageFail(i)

C2_LastActionDecides ==
  /\ [](\A id \in Ids : isSelected(id) <=> latest[id] = "selected")
  /\ [][~(userActions' # userActions /\ NavigationStep)]_vars

\* C2 witness: back on page 1 after a visit to page 2, where id 3 was
\* selected and id 4 deselected; id 1 is still selected, id 2 still deselected
C2_Witness ==
  /\ lastOp.op = "fetchOk" /\ rows = ServerData(1, PAGE_SIZE)
  /\ isSelected(1) /\ EntryOf(userActions, 2) = "deselected"
  /\ isSelected(3) /\ EntryOf(userActions, 4) = "deselected"

\* C3: after the selection-change handler for checked set S, every id of S is
\* selected, every id of the page not in S is deselected, and the entries of
\* the ids neither in S nor on the page are as before.
C3_Reconciled(S) ==
  /\ \A id \in S : EntryOf(userActions', id) = "selected"
  /\ \A id \in PageIds \ S : EntryOf(userActions', id) = "deselected"
  /\ \A id \in Ids \ (S \cup PageIds) :
       EntryOf(userActions', id) = EntryOf(userActions, id)

C3_SelectionChangeReconciles ==
  [][\A S \in SUBSET PageIds :
        (lastOp'.op = "onSelectionChange" /\ OnSelectionChange(S)) => C3_Reconciled(S)]_vars

\* C3 witness: page 1 shows ids 1 and 2, the handler has just run with
\* S = {1}: id 1 is selected, id 2 deselected, id 3 of page 2 still selected
C3_Witness ==
  /\ lastOp.op = "onSelectionChange"
  /\ rows = ServerData(1, PAGE_SIZE)
  /\ isSelected(1) /\ EntryOf(userActions, 2) = "deselected" /\ isSelected(3)

\* C4: a walk that leaves its loop with nothing interleaved has newly marked
\* exactly the first min(count, U) not-selected ids, in page order, of the
\* pages after the current one up to the last known page, and every id that
\* was selected before is still selected.
RECURSIVE PagesFrom(_, _)
PagesFrom(p, last) ==
  IF p > last THEN <<>> ELSE ServerData(p, PAGE_SIZE) \o PagesFrom(p + 1, last)

\* the ids not in sel on the pages after `page` up to `totalPages`, in order
Candidates(sel, page, totalPages) ==
  SelectSeq(PagesFrom(page + 1, totalPages), LAMBDA id : id \notin sel)

Expected(sel, page, totalPages, count) ==
  LET c == Candidates(sel, page, totalPages)
  IN SeqRange(SubSeq(c, 1, Min(count, Len(c))))

WalkLeavesLoop == walk.pc # "restore" /\ walk'.pc = "restore"

WalkOutcome ==
  LET fresh == SelectedIds(userActions) \ before
      U == Len(Candidates(before, walk.page, walk.totalPages))
  IN /\ fresh = Expected(before, walk.page, walk.totalPages, walk.count)
     /\ Cardinality(fresh) = Min(walk.count, U)
     /\ before \subseteq SelectedIds(userActions)

C4_WalkMarksFirstUnselected == [][WalkLeavesLoop => WalkOutcome']_vars

\* C4 witness: a walk for 2 ids from page 1 has left its loop after two
\* batches, having skipped an id of page 2 that was selected already
C4_Witness ==
  /\ walk.pc = "restore" /\ walk.page = 1 /\ walk.count = 2
  /\ walk.collected = 2 /\ walk.p = 4
  /\ before \cap SeqRange(ServerData(2, PAGE_SIZE)) # {}

\* C5 (as claimed): no step of a walk's loop touches Page View or Page
\* Metadata, and when the call ends after its loop they show the page that
\* was current when it began (Page Metadata names it, and Page View holds
\* its records once any page has been loaded).
WalkLoopStep == walk.pc = "batch" /\ walk' # walk
WalkEnds == walk.pc = "restore" /\ walk'.pc = "idle"
Shows(rs, mt, page) == mt.page = page /\ rs = ServerData(page, PAGE_SIZE)
ShowsPage(page) == Shows(rows, meta, page)

WalkFails == walk.pc = "batch" /\ walk'.pc = "idle"

C6_FailedWalkKeepsMarks ==
  [][WalkFails => UNCHANGED <<userActions, countState, storage>>]_vars

\* C6 witness: a walk has just failed on its second batch with id 3 of the
\* first batch marked
C6_Witness ==
  /\ lastOp = Op("walkFail", 1)
  /\ isSelected(3) /\ countState = 1

\* C7: a failing fetchPage leaves Page View and Page Metadata as they were.
C7_FailedFetchKeepsView ==
  [][(Len(inflight') < Len(inflight) /\ \E i \in 1..MaxInFlight : FetchPageFail(i))
        => UNCHANGED <<rows, meta>>]_vars

\* C7 witness: a fetch has just failed while page 2 was displayed
C7_Witness ==
  /\ lastOp.op = "fetchFail"
  /\ loaded /\ ShowsPage(2)

\* C8: goToPage(page) with page < 1 or page > meta.totalPages issues no
\* fetch and leaves Page View and Page Metadata unchanged; for a page within
\* 1..totalPages it issues the fetch of that page.
C8_GoToPageBounds ==
  [][\A page \in 0..(NumPages + 1) :
        (lastOp'.op \in {"goToPage", "goToPageIgnored"} /\ GoToPage(page)) =>
        /\ UNCHANGED <<rows, meta>>
        /\ IF page < 1 \/ page > meta.totalPages
           THEN UNCHANGED <<inflight, loading>>
           ELSE /\ Len(inflight') = Len(inflight) + 1
                /\ inflight'[Len(inflight')].page = page
                /\ SubSeq(inflight', 1, Len(inflight)) = inflight]_vars

\* C8 witness: on the last page, a goToPage beyond it has just been ignored
C8_Witness ==
  /\ lastOp = Op("goToPageIgnored", 1)
  /\ loaded /\ ShowsPage(NumPages) /\ meta.totalPages = NumPages

\* C9: once the response of a fetchPage call has been applied, the response
\* of a call issued before it never changes Page View or Page Metadata, so
\* that they stay those of the most recently issued call.
C9_NewestWins ==
  [][\A i \in 1..MaxInFlight : \A pag \in ServerPaginations(PAGE_SIZE) :
        (Len(inflight') < Len(inflight) /\ FetchPageOk(i, pag) /\ inflight[i].stale)
          => UNCHANGED <<rows, meta>>]_vars

\* C10: once a fetch has succeeded, Page View holds the records of exactly
\* the one page Page Metadata names.
C10_ViewIsOnePage ==
  loaded => /\ meta.page \in 1..NumPages
            /\ rows = ServerData(meta.page, PAGE_SIZE)

\* C10 witness: a walk begun on page 1 awaits a batch, a navigation to page 2
\* has completed meanwhile and another fetchPage call is in flight
C10_Witness ==
  /\ loaded /\ walk.pc = "batch" /\ walk.page = 1
  /\ ShowsPage(2) /\ Len(inflight) >= 1

\* C11: at the moment clearAll() has returned, getSelectedCount() is 0 and
\* isSelected(id) is false for every id.
C11_ClearAllEmpties ==
  lastOp.op = "clearAll" =>
    /\ selectedCount = 0
    /\ \A id \in Ids : ~isSelected(id)

\* C12: when the stored value is what persist() writes for the current map,
\* a tracker constructed anew and hydrated from it holds the same
\* id -> action pairs and computes the same selected count.
C12_PersistHydrateRoundTrip ==
  [][(lastOp'.op = "reload" /\ storage = persist(userActions, storage, FALSE))
        => /\ userActions' = userActions
           /\ countState' = countState]_vars

\* C12 witness: a reloaded tracker holds id 2 selected and id 3 deselected,
\* read back from what the session before it had persisted
C12_Witness ==
  /\ lastOp.op = "reload" /\ storage = Stringify(userActions)
  /\ isSelected(2) /\ EntryOf(userActions, 3) = "deselected"
  /\ countState = 1

\* C13: hydrating from a stored value that is malformed (it does not parse,
\* or it parses into something other than id -> 'selected' | 'deselected')
\* leaves the tracker with an empty map and count 0.
Malformed(text) ==
  \/ text.kind = "invalid"
  \/ /\ text.kind = "object"
     /\ \E i \in 1..Len(text.members) :
          text.members[i][2] \notin {"selected", "deselected"}

C13_MalformedIsDiscarded ==
  [][(lastOp'.op \in {"init()", "reload"} /\ Malformed(storage))
        => /\ userActions' = EmptyMap
           /\ countState' = 0]_vars

\* C14: when the storage write fails, a selection mutation still lands in
\* the map (the ids it names hold its action, every other entry is as it
\* was), the count is that of the new map, and the stored value is untouched.
MarkedAs(ids, action) ==
  /\ \A k \in ids : EntryOf(userActions', k) = action
  /\ \A k \in Ids \ ids : EntryOf(userActions', k) = EntryOf(userActions, k)

Counted ==
  /\ countState' = Cardinality({k \in Ids : EntryOf(userActions', k) = "selected"})
  /\ storage' = storage

C14_FailedWriteKeepsMutation ==
  [][/\ \A id \in Ids :
          (storageFull /\ lastOp' = Op("markSelected", id) /\ CallMarkSelected(id))
            => (MarkedAs({id}, "selected") /\ Counted)
     /\ \A id \in Ids :
          (storageFull /\ lastOp' = Op("markDeselected", id) /\ CallMarkDeselected(id))
            => (MarkedAs({id}, "deselected") /\ Counted)
     /\ \A rs \in RowLists :
          (storageFull /\ lastOp'.op = "selectAllOnPage" /\ CallSelectAllOnPage(rs))
            => (MarkedAs(SeqRange(rs), "selected") /\ Counted)
     /\ \A rs \in RowLists :
          (storageFull /\ lastOp'.op = "deselectAllOnPage" /\ CallDeselectAllOnPage(rs))
            => (MarkedAs(SeqRange(rs), "deselected") /\ Counted)
     /\ (storageFull /\ lastOp'.op = "clearAll" /\ CallClearAll)
            => (MarkedAs(Ids, "none") /\ Counted)]_vars

\* C14 witness: with the storage full, selectAllOnPage on page 2 has just
\* selected ids 3 and 4 beside id 1; nothing was ever stored
C14_Witness ==
  /\ storageFull /\ lastOp = Op("selectAllOnPage", PAGE_SIZE)
  /\ isSelected(1) /\ isSelected(3) /\ isSelected(4)
  /\ countState = 3 /\ storage = NoItem

\* C15: selectedOnPage(rs) returns the rows of rs whose id maps to selected,
\* each as often as rs holds it and in the order of rs, and leaves the map,
\* the count and the stored value alone.
RECURSIVE Kept(_, _)
Kept(rs, m) ==
  IF rs = <<>> THEN <<>>
  ELSE (IF EntryOf(m, Head(rs)) = "selected" THEN <<Head(rs)>> ELSE <<>>)
       \o Kept(Tail(rs), m)

C15_SelectedOnPageFilters ==
  [][\A rs \in RowArgs :
        (lastOp'.op = "selectedOnPage" /\ CallSelectedOnPage(rs))
          => /\ returned' = Kept(rs, userActions)
             /\ UNCHANGED <<userActions, countState, storage>>]_vars

\* C15 witness: selectedOnPage(<<2, 1, 2>>) has returned <<2, 2>> with id 2
\* selected and id 1 deselected
C15_Witness ==
  /\ lastOp = Op("selectedOnPage", 3) /\ returned = <<2, 2>>
  /\ isSelected(2) /\ EntryOf(userActions, 1) = "deselected"

\* C16: markSelected(id) called right after markSelected(id) changes neither
\* the map, nor the count, nor what getSelectedCount() returns, nor the
\* stored value.
C16_MarkSelectedIdempotent ==
  [][\A id \in Ids :
        (lastOp = Op("markSelected", id) /\ CallMarkSelected(id))
          => UNCHANGED <<userActions, countState, selectedCount, storage>>]_vars

\* C16 witness: markSelected(2) has returned with id 2 selected beside a
\* deselected id 1; a second markSelected(2) from here is the step above
C16_Witness ==
  /\ lastOp = Op("markSelected", 2)
  /\ isSelected(2) /\ EntryOf(userActions, 1) = "deselected"
  /\ countState = 1

\* C17: after a successful fetch whose response leaves total_pages out,
\* Page Metadata's total pages is ceiling(total / page size), the page size
\* being that of the response, and 1 when total is zero or left out; it is
\* at least 1.
ExpectedPages(pag) ==
  IF pag.total \in {Missing, 0} THEN 1
  ELSE CeilDiv(pag.total, Coalesce(pag.limit, PAGE_SIZE))

C17_TotalPagesFromResponse ==
  [][\A i \in 1..MaxInFlight : \A pag \in RawPaginations :
        (pag.total_pages = Missing /\ Len(inflight') < Len(inflight)
           /\ FetchPageOk(i, pag))
          => /\ meta'.totalPages = ExpectedPages(pag)
             /\ meta'.totalPages >= 1]_vars

\* C18 (as claimed): at most one batch fetch issued by handleAutoSelectNext
\* is in flight in any state; a call awaiting a batch awaits a page after
\* the one it began on and not beyond the last page it knew; and the page a
\* call requests next is the one after the page whose response it has just
\* processed.
InFlightOf(w) == IF w.pc = "batch" THEN 1 ELSE 0
ClosingFetches == Cardinality({i \in 1..Len(inflight) : inflight[i].restore})
WalkInOrder(w) == w.pc = "batch" => (w.page < w.p /\ w.p <= w.totalPages)
NextPageAfter(w, w2) ==
  (w.pc = "batch" /\ w2.pc = "batch" /\ w2 # w) => w2.p = w.p + 1

C18_WalkFetchesOneAtATime ==
  /\ [](/\ InFlightOf(walk) + InFlightOf(other) <= 1
        /\ WalkInOrder(walk) /\ WalkInOrder(other))
  /\ [][NextPageAfter(walk, walk') /\ NextPageAfter(other, other')]_vars

\* C18 (amended): each handleAutoSelectNext call has at most one page fetch
\* of its own in flight (a batch or its closing fetchPage, never both), awaits
\* only pages after the one it began on and not beyond the last page it
\* knew, and requests the next page only after processing the previous
\* response; two calls may each have a fetch in flight at once.
C18_EachWalkSequential ==
  /\ [](/\ InFlightOf(walk) + ClosingFetches <= 1
        /\ InFlightOf(other) <= 1
        /\ WalkInOrder(walk) /\ WalkInOrder(other))
  /\ [][NextPageAfter(walk, walk') /\ NextPageAfter(other, other')]_vars

\* C18 witness: two calls begun on page 1 each await a batch, the first the
\* one of page 3 after processing page 2, the second the one of page 2
C18_Witness ==
  /\ walk.pc = "batch" /\ walk.page = 1 /\ walk.p = 3
  /\ other.pc = "batch" /\ other.page = 1 /\ other.p = 2

\* C19 (as claimed): while onSelectionChange runs no other operation takes a
\* step; when it returns the map holds the whole reconciliation and the
\* stored value is either the whole new map or what it was when the handler
\* began; and selectAllOnPage, deselectAllOnPage and clearAll leave the
\* stored value either the whole new map or what it was.
HandlerRuns == task.pc = "run"
HandlerReturns == task.pc = "run" /\ task'.pc = "idle"
AtomicCall ==
  task.pc = "idle" /\ lastOp'.op \in {"selectAllOnPage", "deselectAllOnPage", "clearAll"}

MapIsWhole ==
  /\ \A id \in task.checked : EntryOf(userActions', id) = "selected"
  /\ \A id \in PageIds \ task.checked : EntryOf(userActions', id) = "deselected"
  /\ \A id \in Ids \ PageIds : EntryOf(userActions', id) = EntryOf(task.base, id)

NothingElseRuns ==
  /\ UNCHANGED <<rows, meta, loading, inflight, walk, other, mounted>>
  /\ selectedCount' # selectedCount => task'.pc = "idle"

C19_ActionsAreAtomic ==
  [][/\ HandlerRuns => NothingElseRuns
     /\ HandlerReturns => /\ MapIsWhole
                          /\ storage' \in {task.stored, Stringify(userActions')}
     /\ AtomicCall => storage' \in {storage, Stringify(userActions')}]_vars

\* C19 (amended): as above, except that the stored value onSelectionChange
\* leaves may lie between the two: for every id it holds the entry the id
\* had when the handler began or the entry it has when the handler returns.
StoredBetween ==
  \/ storage' = task.stored
  \/ /\ storage'.kind = "object"
     /\ \A id \in Ids :
          EntryOf(Parse(storage'), id) \in
            {EntryOf(task.base, id), EntryOf(userActions', id)}

C19_MapWholeStoreBetween ==
  [][/\ HandlerRuns => NothingElseRuns
     /\ HandlerReturns => (MapIsWhole /\ StoredBetween)
     /\ AtomicCall => storage' \in {storage, Stringify(userActions')}]_vars

\* C19 witness: onSelectionChange has returned with ids 1 and 2 of page 1
\* selected, the storage filled up between its two writes, and the stored
\* value holds one of the two ids only
C19_Witness ==
  /\ lastOp.op = "onSelectionChange" /\ storageFull
  /\ isSelected(1) /\ isSelected(2)
  /\ storage.kind = "object" /\ Len(storage.members) = 1

\* C20: with storage writes succeeding, a step of selectAllOnPage,
\* deselectAllOnPage or clearAll leaves the stored value the serialisation
\* of the whole map; so does a step of the selection-change handler or of a
\* walk's batch unless it marked no id; and mounting, navigating, a response
\* to fetchPage, the start and the failure of a walk never write.
C20_StoredIsWholeMap ==
  [][/\ lastOp'.op \in {"selectAllOnPage", "deselectAllOnPage", "clearAll"}
          => storage' = Stringify(userActions')
     /\ lastOp'.op \in {"onSelectionChange", "walkBatch"}
          => \/ storage' = Stringify(userActions')
             \/ UNCHANGED <<userActions, storage>>
     /\ lastOp'.op \in {"mount", "fetchOk", "fetchFail", "restoreOk", "restoreFail",
                        "goToPage", "goToPageIgnored", "autoSelectNext", "walkFail"}
          => storage' = storage]_vars

\* C20 witness: a walk's batch has just marked id 3 while id 1 is deselected,
\* and the stored value is the serialisation of that whole map
C20_Witness ==
  /\ lastOp.op = "walkBatch" /\ walk.collected >= 1
  /\ isSelected(3) /\ EntryOf(userActions, 1) = "deselected"
  /\ storage = Stringify(userActions) /\ Len(storage.members) >= 2

====
